---- MODULE Spec2Model ----
(***************************************************************************)
(* A model of the Variant Manager panel's two pieces of event plumbing:    *)
(*   - the thumbnail system: ThumbnailGenerator (a queue drained by a      *)
(*     single-shot QTimer) behind the ThumbnailManager facade and its      *)
(*     pixmap cache (python_panels/thumbnail/);                            *)
(*   - the VariantManagerState singleton (python_panels/state.py).         *)
(* Every handler runs to completion on the Qt event loop, so each handler  *)
(* is one action; signals are delivered synchronously (direct connection)  *)
(* and are recorded, in emission order, in the variable emitted.           *)
(***************************************************************************)
EXTENDS Integers, Sequences, FiniteSets, TLC

VARIABLES
    \* ThumbnailGenerator
    queue,            \* self._queue, oldest first
    is_busy,          \* self._is_busy
    timerActive,      \* self._timer is running (single shot, TIMER_INTERVAL)
    gen_service,      \* self.viewport_service as the generator sees it
    \* ThumbnailManager
    mgr_service,      \* self._viewport_service
    cache,            \* self._cache: cache_key -> pixmap (NoPixmap = absent)
    \* VariantManagerState
    instance,         \* cls._instance (NoObject = None)
    initialized,      \* hasattr(self, '_initialized')
    lop_node,         \* self._lop_node
    stage,            \* self._stage
    prim_path,        \* self._prim_path
    variant_set,      \* self._variant_set
    \* InspectorTab: the variant tree
    variant_prims,    \* self._variant_prims, in traversal order
    tree,             \* the QTreeWidget's items and self._path_to_item
    hidden,           \* item index -> QTreeWidgetItem.isHidden()
    expanded,         \* item index -> QTreeWidgetItem.isExpanded()
    \* VariantManagerPanel
    houdini,          \* the LOP nodes of the scene, display and current node
    selector,         \* the LOPNodeSelector's fields
    inspector,        \* the InspectorTab's stage, selection and details pane
    comparison,       \* the ComparisonTab's fields and widgets
    \* observation of the last handler that ran
    call,             \* its name, arguments, and whether it raised
    emitted,          \* the signals it emitted, in order
    \* history (not program state)
    nextId,           \* number of requests accepted into the queue so far
    accepted,         \* ids of accepted requests, in order of acceptance
    answered,         \* ids of requests popped and answered, in order
    cancelled,        \* ids of requests removed by cancel_all
    generated,        \* triple -> pixmap of its latest successful generation
    assigned,         \* the value last assigned to each property
    repeated,         \* the last assignment gave the value assigned before
    initCount,        \* times the body of __init__ ran
    returned,         \* objects handed out by VariantManagerState()
    nextObject        \* objects allocated by __new__ so far

vars == <<queue, is_busy, timerActive, gen_service, mgr_service, cache,
          instance, initialized, lop_node, stage, prim_path, variant_set,
          call, emitted, nextId, accepted, answered, cancelled, generated,
          assigned, repeated, initCount, returned, nextObject,
          variant_prims, tree, hidden, expanded,
          houdini, selector, inspector, comparison>>

panelVars == <<houdini, selector, inspector, comparison>>

treeVars == <<variant_prims, tree, hidden, expanded>>

thumbVars == <<queue, is_busy, timerActive, gen_service, mgr_service, cache,
               nextId, accepted, answered, cancelled, generated>>

stateVars == <<instance, initialized, lop_node, stage, prim_path, variant_set,
               assigned, repeated, initCount, returned, nextObject>>

----------------------------------------------------------------------------
(* Bounds and input sets *)

MaxRequests == 3      \* requests accepted into the queue in one behaviour
MaxIndex    == 1      \* UI panel indices 0..MaxIndex

PrimPaths    == {"/P"}
VariantSets  == {"a", "a|b"}
VariantNames == {"c", "b|c"}
Triples      == PrimPaths \X VariantSets \X VariantNames
Indices      == 0..MaxIndex
Pixmaps      == {1, 2}
NoPixmap     == 0     \* Python None where a QPixmap is expected

MaxNodes    == 3      \* distinct LOP nodes 1..MaxNodes
MaxStages   == 2      \* distinct USD stages 1..MaxStages
MaxCreated  == 2      \* Set Variant nodes created

NoNode      == 0      \* Python None where a hou.LopNode is expected
NoStage     == 0      \* Python None where a Usd.Stage is expected
NoObject    == 0      \* Python None in cls._instance
LopNodes    == 0..MaxNodes
Stages      == 0..MaxStages
StatePaths  == {"", "/P", "/P/Q"}
StateSets   == {"", "a", "a|b"}

\* the prims with variant sets that a stage may hold, as _refresh_from_stage
\* records them: the path and the names of the variant sets
PrimA  == [path |-> <<"/", "A">>, variant_sets |-> <<<<"a", "b">>>>]
PrimAB == [path |-> <<"/", "A", "/", "B">>,
           variant_sets |-> <<<<"a">>, <<"B">>>>]
PrimAb == [path |-> <<"/", "A", "/", "b">>, variant_sets |-> <<<<"b">>>>]
PrimAx == [path |-> <<"/", "A", "b">>, variant_sets |-> <<<<"A">>>>]
PrimbA == [path |-> <<"/", "b", "/", "A">>,
           variant_sets |-> <<<<"a">>, <<"b">>, <<"B">>>>]
PrimUniverse == {PrimA, PrimAB, PrimAb, PrimAx, PrimbA}

\* the stage's prims in the order of Usd.Stage.Traverse() (depth first,
\* parents first) for an order of the root's children and of /A's children
RootOrders == {o \in [1..3 -> {"A", "Ab", "b"}] : \A i, j \in 1..3 : o[i] = o[j] => i = j}

Subtree(name, b_first) ==
    CASE name = "A"  -> <<PrimA>> \o (IF b_first THEN <<PrimAb, PrimAB>>
                                      ELSE <<PrimAB, PrimAb>>)
      [] name = "Ab" -> <<PrimAx>>
      [] name = "b"  -> <<PrimbA>>

Traverse(order, b_first) ==
    Subtree(order[1], b_first) \o Subtree(order[2], b_first)
        \o Subtree(order[3], b_first)

\* the lists _refresh_from_stage can collect: a traversal, restricted to the
\* prims that have variant sets
Traversals ==
    {SelectSeq(Traverse(o, b), LAMBDA prim : prim \in present) :
        o \in RootOrders, b \in BOOLEAN, present \in SUBSET PrimUniverse}

\* what the user may type into the search field
FilterTexts ==
    {<<>>, <<"a">>, <<"B">>, <<"a", "b">>, <<"a", " ", "B">>, <<"/">>,
     <<"b", "b">>, <<"A", "/", "b">>, <<"(">>}

----------------------------------------------------------------------------
(* ThumbnailManager: the cache key *)

CacheKey(p, s, v) == p \o "|" \o s \o "|" \o v

Keys == {CacheKey(t[1], t[2], t[3]) : t \in Triples}

get_cached_thumbnail(p, s, v) == cache[CacheKey(p, s, v)]

EmptyCache == [k \in Keys |-> NoPixmap]

NeverGenerated == [t \in Triples |-> NoPixmap]

----------------------------------------------------------------------------
(* ThumbnailGenerator *)

Request(id, index, p, s, v, key) ==
    [id |-> id, index |-> index, prim_path |-> p, variant_set_name |-> s,
     variant_value |-> v, cache_key |-> key]

Ids(q) == [i \in 1..Len(q) |-> q[i].id]

\* the duplicate scan of queue_item: some queued item has this cache key
IsQueued(q, key) == \E i \in 1..Len(q) : q[i].cache_key = key

\* a timer that keeps firing every interval once started
Repeating == FALSE

\* self._timer.setSingleShot(True): one timeout per start()
SingleShot == TRUE

\* self._queue.pop(): the newest request
PopLast(q) == Len(q)

\* self._queue.pop(0): the position that is removed and processed
PopIndex(q) == 1

RemoveAt(q, i) == SubSeq(q, 1, i - 1) \o SubSeq(q, i + 1, Len(q))

\* a cancel that leaves the requests queued
KeepQueue(q) == q

\* self._queue.clear()
ClearedQueue(q) == <<>>

\* what viewport_service.capture() followed by QPixmap(temp_file) can give:
\* a pixmap, a CaptureException, or another exception (a null pixmap, or no
\* service object at all)
CaptureOutcomes(service) ==
    IF service = "live"
    THEN {[ok |-> TRUE, pixmap |-> px, msg |-> ""] : px \in Pixmaps}
         \cup {[ok |-> FALSE, pixmap |-> NoPixmap, msg |-> "Capture failed"],
               [ok |-> FALSE, pixmap |-> NoPixmap,
                msg |-> "Unexpected error: Failed to load pixmap from captured file"]}
    ELSE IF service = "cleaned"
    THEN {[ok |-> FALSE, pixmap |-> NoPixmap,
           msg |-> "Viewport capture service not properly initialized"]}
    ELSE {[ok |-> FALSE, pixmap |-> NoPixmap,
           msg |-> "Unexpected error: 'NoneType' object has no attribute 'capture'"]}

\* queue_item as called on the generator: the effect on the generator
queue_item_effect(index, p, s, v, key) ==
    IF IsQueued(queue, key)
    THEN UNCHANGED <<queue, timerActive, nextId, accepted>>
    ELSE /\ queue' = Append(queue, Request(nextId + 1, index, p, s, v, key))
         /\ nextId' = nextId + 1
         /\ accepted' = Append(accepted, nextId + 1)
         \* process_queue: not busy and the queue is not empty
         /\ timerActive' = IF ~is_busy THEN TRUE ELSE timerActive

queue_item(index, p, s, v) ==
    /\ nextId < MaxRequests
    /\ queue_item_effect(index, p, s, v, CacheKey(p, s, v))
    /\ call' = [name |-> "queue_item", args |-> <<index, p, s, v>>, raised |-> ""]
    /\ emitted' = <<>>
    /\ UNCHANGED <<is_busy, gen_service, mgr_service, cache, answered,
                   cancelled, generated>>
    /\ UNCHANGED <<stateVars, treeVars, panelVars>>

\* the timer's timeout runs _generate_next, with the manager's slots
\* (_on_thumbnail_generated, _on_generation_error) run inside the emit
_generate_next ==
    /\ timerActive
    /\ IF queue = <<>>
       THEN /\ is_busy' = FALSE
            /\ emitted' = <<[sig |-> "queue_completed"]>>
            /\ timerActive' = ~SingleShot
            /\ UNCHANGED <<queue, cache, answered, generated>>
       ELSE LET i    == PopIndex(queue)
                req  == queue[i]
                rest == RemoveAt(queue, i)
            IN  \E out \in CaptureOutcomes(gen_service) :
                /\ queue' = rest
                /\ answered' = Append(answered, req.id)
                /\ IF out.ok
                   THEN /\ cache' = [cache EXCEPT ![req.cache_key] = out.pixmap]
                        /\ generated' =
                             [generated EXCEPT ![<<req.prim_path,
                                                  req.variant_set_name,
                                                  req.variant_value>>] = out.pixmap]
                        /\ emitted' =
                             <<[sig |-> "thumbnail_generated", index |-> req.index,
                                pixmap |-> out.pixmap, cache_key |-> req.cache_key],
                               [sig |-> "thumbnail_ready", index |-> req.index,
                                pixmap |-> out.pixmap,
                                cached |-> cache'[req.cache_key]]>>
                              \o (IF rest = <<>> THEN <<[sig |-> "queue_completed"]>>
                                  ELSE <<>>)
                   ELSE /\ UNCHANGED <<cache, generated>>
                        /\ emitted' =
                             <<[sig |-> "generation_error", index |-> req.index,
                                msg |-> out.msg],
                               [sig |-> "generation_failed", index |-> req.index,
                                msg |-> out.msg]>>
                              \o (IF rest = <<>> THEN <<[sig |-> "queue_completed"]>>
                                  ELSE <<>>)
                /\ is_busy' = FALSE
                /\ timerActive' = (rest # <<>> \/ ~SingleShot)
    /\ call' = [name |-> "_generate_next", args |-> <<>>, raised |-> ""]
    /\ UNCHANGED <<gen_service, mgr_service, nextId, accepted, cancelled>>
    /\ UNCHANGED <<stateVars, treeVars, panelVars>>

cancel_all_effect ==
    /\ queue' = ClearedQueue(queue)
    /\ cancelled' = cancelled \cup {queue[i].id : i \in 1..Len(queue)}
    /\ timerActive' = FALSE
    /\ is_busy' = FALSE

cancel_all ==
    /\ cancel_all_effect
    /\ call' = [name |-> "cancel_all", args |-> <<>>, raised |-> ""]
    /\ emitted' = <<>>
    /\ UNCHANGED <<gen_service, mgr_service, cache, nextId, accepted, answered,
                   generated>>
    /\ UNCHANGED <<stateVars, treeVars, panelVars>>

is_busy_method == is_busy

queue_length == Len(queue)

----------------------------------------------------------------------------
(* ThumbnailManager *)

\* def queue_item(self, index, prim_path, variant_set_name, variant_value,
\*                cache_key): the names a call may bind
QueueItemParameters ==
    {"index", "prim_path", "variant_set_name", "variant_value", "cache_key"}

\* the keyword arguments request_thumbnail passes to queue_item
RequestThumbnailKeywords == {"skip_duplicate_check"}

\* Python binds the call's keywords to the callee's parameters before the
\* body runs; an unknown keyword raises TypeError and the body never runs
request_thumbnail(index, p, s, v, force_regenerate) ==
    /\ IF RequestThumbnailKeywords \subseteq QueueItemParameters
       THEN /\ queue_item_effect(index, p, s, v, CacheKey(p, s, v))
            /\ call' = [name |-> "request_thumbnail",
                        args |-> <<index, p, s, v, force_regenerate>>,
                        raised |-> ""]
       ELSE /\ UNCHANGED <<queue, timerActive, nextId, accepted>>
            /\ call' = [name |-> "request_thumbnail",
                        args |-> <<index, p, s, v, force_regenerate>>,
                        raised |-> "TypeError"]
    /\ emitted' = <<>>
    /\ UNCHANGED <<is_busy, gen_service, mgr_service, cache, answered,
                   cancelled, generated>>
    /\ UNCHANGED <<stateVars, treeVars, panelVars>>

cancel_pending ==
    /\ cancel_all_effect
    /\ call' = [name |-> "cancel_pending", args |-> <<>>, raised |-> ""]
    /\ emitted' = <<>>
    /\ UNCHANGED <<gen_service, mgr_service, cache, nextId, accepted, answered,
                   generated>>
    /\ UNCHANGED <<stateVars, treeVars, panelVars>>

\* the arguments of update_source_node: None, a node on which a new
\* ViewportCaptureService can be built, and one on which it raises
SourceNodes == {"None", "good", "bad"}

\* update_source_node after cancel_pending: the old service is cleaned up;
\* the generator keeps its reference to it unless a new service is built or
\* building one raises
update_source_node_services(node) ==
    IF node = "None"
    THEN /\ mgr_service' = "none"
         /\ gen_service' = IF mgr_service = "live" /\ gen_service = "live"
                           THEN "cleaned" ELSE gen_service
    ELSE IF node = "good"
    THEN /\ mgr_service' = "live"
         /\ gen_service' = "live"
    ELSE /\ mgr_service' = "none"
         /\ gen_service' = "none"

\* an update that drops the cache as cleanup() does
update_source_node_clearing(node) ==
    /\ cancel_all_effect
    /\ cache' = EmptyCache
    /\ update_source_node_services(node)
    /\ call' = [name |-> "update_source_node", args |-> <<node>>, raised |-> ""]
    /\ emitted' = <<>>
    /\ UNCHANGED <<nextId, accepted, answered, generated>>
    /\ UNCHANGED <<stateVars, treeVars, panelVars>>

\* update_source_node(source_lop_node)
update_source_node(node) ==
    /\ cancel_all_effect
    /\ update_source_node_services(node)
    /\ call' = [name |-> "update_source_node", args |-> <<node>>, raised |-> ""]
    /\ emitted' = <<>>
    /\ UNCHANGED <<cache, nextId, accepted, answered, generated>>
    /\ UNCHANGED <<stateVars, treeVars, panelVars>>

cleanup ==
    /\ cancel_all_effect
    /\ cache' = EmptyCache
    /\ generated' = NeverGenerated
    /\ mgr_service' = "none"
    /\ gen_service' = IF mgr_service = "live" /\ gen_service = "live"
                      THEN "cleaned" ELSE gen_service
    /\ call' = [name |-> "cleanup", args |-> <<>>, raised |-> ""]
    /\ emitted' = <<>>
    /\ UNCHANGED <<nextId, accepted, answered>>
    /\ UNCHANGED <<stateVars, treeVars, panelVars>>

----------------------------------------------------------------------------
(* VariantManagerState *)

Defaults == [lop_node |-> NoNode, stage |-> NoStage, prim_path |-> "",
             variant_set |-> ""]

\* __new__: a new object is made only when cls._instance is None
NeedsNew(inst) == inst = NoObject

\* an __init__ without the guard
NeverInitialized(init) == FALSE

\* __init__: hasattr(self, '_initialized') returns early
AlreadyInitialized(init) == init

\* VariantManagerState() and get_state(): __new__, then __init__ on the
\* object __new__ returned
VariantManagerState ==
    LET fresh == NeedsNew(instance)
        obj   == IF fresh THEN nextObject + 1 ELSE instance
        init  == IF fresh THEN FALSE ELSE initialized
    IN  /\ instance' = obj
        /\ nextObject' = IF fresh THEN nextObject + 1 ELSE nextObject
        /\ IF AlreadyInitialized(init)
           THEN UNCHANGED <<initialized, lop_node, stage, prim_path,
                            variant_set, assigned, repeated, initCount>>
           ELSE /\ initialized' = TRUE
                /\ assigned' = Defaults
                /\ repeated' = FALSE
                /\ lop_node' = NoNode
                /\ stage' = NoStage
                /\ prim_path' = ""
                /\ variant_set' = ""
                /\ initCount' = initCount + 1
        /\ returned' = returned \cup {obj}
        /\ call' = [name |-> "VariantManagerState", args |-> <<>>, raised |-> ""]
        /\ emitted' = <<>>
        /\ UNCHANGED <<thumbVars, treeVars, panelVars>>

\* the property getters
lop_node_getter == lop_node

stage_getter == stage

prim_path_getter == prim_path

variant_set_getter == variant_set

\* a setter that stores and emits whatever the stored value
lop_node_setter_always(value) ==
    /\ lop_node' = value
    /\ emitted' = <<[sig |-> "lop_node_changed", value |-> value]>>

\* the lop_node setter, and the signal it emits
lop_node_setter(value) ==
    IF lop_node # value
    THEN /\ lop_node' = value
         /\ emitted' = <<[sig |-> "lop_node_changed", value |-> value]>>
    ELSE /\ UNCHANGED lop_node
         /\ emitted' = <<>>

set_lop_node(value) ==
    /\ instance # NoObject
    /\ lop_node_setter(value)
    /\ call' = [name |-> "lop_node", args |-> <<value>>, raised |-> ""]
    /\ assigned' = [assigned EXCEPT !.lop_node = value]
    /\ repeated' = (value = assigned.lop_node)
    /\ UNCHANGED <<instance, initialized, stage, prim_path, variant_set,
                   initCount, returned, nextObject>>
    /\ UNCHANGED <<thumbVars, treeVars, panelVars>>

\* a stage setter that emits only when the value differs from the stored one
set_stage_on_change(value) ==
    /\ instance # NoObject
    /\ emitted' = IF stage # value
                  THEN <<[sig |-> "stage_changed", value |-> value]>>
                  ELSE <<>>
    /\ call' = [name |-> "stage", args |-> <<value>>, raised |-> ""]
    /\ assigned' = [assigned EXCEPT !.stage = value]
    /\ repeated' = (value = assigned.stage)
    /\ UNCHANGED <<instance, initialized, lop_node, stage, prim_path,
                   variant_set, initCount, returned, nextObject>>
    /\ UNCHANGED <<thumbVars, treeVars, panelVars>>

\* the stage, prim_path and variant_set setters: each only emits
set_stage(value) ==
    /\ instance # NoObject
    /\ emitted' = <<[sig |-> "stage_changed", value |-> value]>>
    /\ call' = [name |-> "stage", args |-> <<value>>, raised |-> ""]
    /\ assigned' = [assigned EXCEPT !.stage = value]
    /\ repeated' = (value = assigned.stage)
    /\ UNCHANGED <<instance, initialized, lop_node, stage, prim_path,
                   variant_set, initCount, returned, nextObject>>
    /\ UNCHANGED <<thumbVars, treeVars, panelVars>>

set_prim_path(value) ==
    /\ instance # NoObject
    /\ emitted' = <<[sig |-> "prim_path_changed", value |-> value]>>
    /\ call' = [name |-> "prim_path", args |-> <<value>>, raised |-> ""]
    /\ assigned' = [assigned EXCEPT !.prim_path = value]
    /\ repeated' = (value = assigned.prim_path)
    /\ UNCHANGED <<instance, initialized, lop_node, stage, prim_path,
                   variant_set, initCount, returned, nextObject>>
    /\ UNCHANGED <<thumbVars, treeVars, panelVars>>

set_variant_set(value) ==
    /\ instance # NoObject
    /\ emitted' = <<[sig |-> "variant_set_changed", value |-> value]>>
    /\ call' = [name |-> "variant_set", args |-> <<value>>, raised |-> ""]
    /\ assigned' = [assigned EXCEPT !.variant_set = value]
    /\ repeated' = (value = assigned.variant_set)
    /\ UNCHANGED <<instance, initialized, lop_node, stage, prim_path,
                   variant_set, initCount, returned, nextObject>>
    /\ UNCHANGED <<thumbVars, treeVars, panelVars>>

\* a clear() that resets the node without telling anyone
clear_silently ==
    /\ instance # NoObject
    /\ lop_node' = NoNode
    /\ emitted' = <<[sig |-> "stage_changed", value |-> NoStage],
                    [sig |-> "prim_path_changed", value |-> ""],
                    [sig |-> "variant_set_changed", value |-> ""]>>
    /\ call' = [name |-> "clear", args |-> <<>>, raised |-> ""]
    /\ assigned' = Defaults
    /\ repeated' = (assigned = Defaults)
    /\ UNCHANGED <<instance, initialized, stage, prim_path, variant_set,
                   initCount, returned, nextObject>>
    /\ UNCHANGED <<thumbVars, treeVars, panelVars>>

\* clear(): the four setters in turn
clear ==
    /\ instance # NoObject
    /\ lop_node' = NoNode
    /\ emitted' = (IF lop_node # NoNode
                   THEN <<[sig |-> "lop_node_changed", value |-> NoNode]>>
                   ELSE <<>>)
                  \o <<[sig |-> "stage_changed", value |-> NoStage],
                       [sig |-> "prim_path_changed", value |-> ""],
                       [sig |-> "variant_set_changed", value |-> ""]>>
    /\ call' = [name |-> "clear", args |-> <<>>, raised |-> ""]
    /\ assigned' = Defaults
    /\ repeated' = (assigned = Defaults)
    /\ UNCHANGED <<instance, initialized, stage, prim_path, variant_set,
                   initCount, returned, nextObject>>
    /\ UNCHANGED <<thumbVars, treeVars, panelVars>>

\* Usd.Stage.GetPrimAtPath: the prim of stage s at path p
NoPrim == <<>>

GetPrimAtPath(s, p) == <<s, p>>

\* get_prim(): the prim at the stored path of the stored stage, None when
\* either is missing
get_prim ==
    IF stage # NoStage /\ prim_path # ""
    THEN GetPrimAtPath(stage, prim_path)
    ELSE NoPrim

----------------------------------------------------------------------------
(* InspectorTab: strings, as sequences of one-character strings *)

\* the code points Python compares and lower-cases by
Code(c) ==
    CASE c = " " -> 32 [] c = "(" -> 40 [] c = ")" -> 41 [] c = "/" -> 47
      [] c = "0" -> 48 [] c = "1" -> 49 [] c = "2" -> 50 [] c = "3" -> 51
      [] c = "A" -> 65 [] c = "B" -> 66 [] c = "a" -> 97 [] c = "b" -> 98

\* str.lower() on one character
LowerChar(c) == CASE c = "A" -> "a" [] c = "B" -> "b" [] OTHER -> c

\* str.lower()
Lower(str) == [i \in 1..Len(str) |-> LowerChar(str[i])]

\* str(n) for the counts that occur
Digits(n) == CASE n = 0 -> <<"0">> [] n = 1 -> <<"1">> [] n = 2 -> <<"2">>
               [] n = 3 -> <<"3">>

\* Python's < on str: the first differing code point decides, a proper
\* prefix is smaller
RECURSIVE StrLess(_, _)
StrLess(x, y) ==
    IF y = <<>> THEN FALSE
    ELSE IF x = <<>> THEN TRUE
    ELSE IF Code(Head(x)) # Code(Head(y)) THEN Code(Head(x)) < Code(Head(y))
    ELSE StrLess(Tail(x), Tail(y))

\* needle in haystack
Contains(haystack, needle) ==
    \E i \in 0..(Len(haystack) - Len(needle)) :
        SubSeq(haystack, i + 1, i + Len(needle)) = needle

\* sep.join(strs)
RECURSIVE Join(_, _)
Join(sep, strs) ==
    IF strs = <<>> THEN <<>>
    ELSE IF Len(strs) = 1 THEN strs[1]
    ELSE strs[1] \o sep \o Join(sep, Tail(strs))

\* [p for p in path.split("/") if p]
RECURSIVE SplitFrom(_, _, _)
SplitFrom(path, i, part) ==
    IF i > Len(path)
    THEN IF part = <<>> THEN <<>> ELSE <<part>>
    ELSE IF path[i] = "/"
    THEN (IF part = <<>> THEN <<>> ELSE <<part>>) \o SplitFrom(path, i + 1, <<>>)
    ELSE SplitFrom(path, i + 1, Append(part, path[i]))

PathParts(path) == SplitFrom(path, 1, <<>>)

\* the non-empty prefixes of a path that end at a component's end
Prefixes(path) ==
    {SubSeq(path, 1, k) : k \in {n \in 2..Len(path) :
        path[n] # "/" /\ (n = Len(path) \/ path[n + 1] = "/")}}

\* the path one component shorter, <<>> for a path of one component
ParentPath(path) ==
    LET shorter == Prefixes(path) \ {path}
    IN  IF shorter = {} THEN <<>>
        ELSE CHOOSE q \in shorter : \A r \in shorter : Len(r) <= Len(q)

----------------------------------------------------------------------------
(* InspectorTab._rebuild_list *)

\* item.data(0, UserRole): None, or the prim's dict
NoData == <<>>

EmptyTree == [items |-> <<>>, path_to_item |-> <<>>]

\* insertion of one record into a list sorted by path (after equal paths)
RECURSIVE InsertSorted(_, _)
InsertSorted(sorted, prim_data) ==
    IF sorted = <<>> THEN <<prim_data>>
    ELSE IF StrLess(prim_data.path, Head(sorted).path)
    THEN <<prim_data>> \o sorted
    ELSE <<Head(sorted)>> \o InsertSorted(Tail(sorted), prim_data)

RECURSIVE SortedFrom(_, _, _)
SortedFrom(prims, i, sorted) ==
    IF i > Len(prims) THEN sorted
    ELSE SortedFrom(prims, i + 1, InsertSorted(sorted, prims[i]))

\* sorted(self._variant_prims, key=lambda p: p["path"], reverse=True)
SortedDescending(prims) ==
    LET ascending == SortedFrom(prims, 1, <<>>)
    IN  [k \in 1..Len(ascending) |-> ascending[Len(ascending) + 1 - k]]

\* sorted(self._variant_prims, key=lambda p: p["path"])
SortedPrims(prims) == SortedFrom(prims, 1, <<>>)

\* the item made for the last component: the prim that has the variants
VariantItem(part, prim_data, parent_item) ==
    [text    |-> part \o <<" ", " ", "(">> \o Digits(Len(prim_data.variant_sets))
                   \o <<")">>,
     tooltip_path |-> prim_data.path,
     data    |-> <<prim_data>>,
     variant |-> TRUE,
     grey    |-> FALSE,
     parent  |-> parent_item]

\* the item made for a component on the way: greyed, without data
IntermediateItem(part, current_path, parent_item) ==
    [text    |-> part,
     tooltip_path |-> current_path,
     data    |-> NoData,
     variant |-> FALSE,
     grey    |-> TRUE,
     parent  |-> parent_item]

\* the inner loop over the components of one prim's path; parent_item is an
\* item's index, 0 for None (top level)
RECURSIVE AddComponents(_, _, _, _, _, _)
AddComponents(t, prim_data, path_parts, i, parent_item, current_path) ==
    IF i > Len(path_parts) THEN t
    ELSE LET part    == path_parts[i]
             cur     == current_path \o <<"/">> \o part
             is_last == (i = Len(path_parts))
         IN  IF cur \in DOMAIN t.path_to_item
             THEN AddComponents(t, prim_data, path_parts, i + 1,
                                t.path_to_item[cur], cur)
             ELSE LET item == IF is_last
                              THEN VariantItem(part, prim_data, parent_item)
                              ELSE IntermediateItem(part, cur, parent_item)
                      n    == Len(t.items) + 1
                      t2   == [items |-> Append(t.items, item),
                               path_to_item |-> (cur :> n) @@ t.path_to_item]
                  IN  AddComponents(t2, prim_data, path_parts, i + 1, n, cur)

\* the outer loop over the sorted prims
RECURSIVE AddPrims(_, _, _)
AddPrims(t, sorted_prims, k) ==
    IF k > Len(sorted_prims) THEN t
    ELSE LET prim_data  == sorted_prims[k]
             path_parts == PathParts(prim_data.path)
         IN  IF path_parts = <<>>
             THEN AddPrims(t, sorted_prims, k + 1)
             ELSE AddPrims(AddComponents(t, prim_data, path_parts, 1, 0, <<>>),
                           sorted_prims, k + 1)

RebuildList(prims) == AddPrims(EmptyTree, SortedPrims(prims), 1)

\* QTreeView.expandAll(): every item that has children
Children(t, i) == {j \in 1..Len(t.items) : t.items[j].parent = i}

\* _refresh_from_stage: collect the stage's variant prims, rebuild the tree
_refresh_from_stage(prims) ==
    /\ variant_prims' = prims
    /\ tree' = RebuildList(prims)
    /\ hidden' = [i \in 1..Len(tree'.items) |-> FALSE]
    /\ expanded' = [i \in 1..Len(tree'.items) |-> Children(tree', i) # {}]
    /\ call' = [name |-> "_refresh_from_stage", args |-> <<prims>>, raised |-> ""]
    /\ emitted' = <<>>
    /\ UNCHANGED <<thumbVars, stateVars, panelVars>>

----------------------------------------------------------------------------
(* InspectorTab._apply_filter *)

\* item_matches: a variant prim by its path or its variant set names, an
\* intermediate item by its displayed name
ItemMatches(item, text) ==
    IF item.data # NoData
    THEN \/ Contains(Lower(item.data[1].path), text)
         \/ Contains(Lower(Join(<<" ">>, item.data[1].variant_sets)), text)
    ELSE Contains(Lower(item.text), text)

\* the value filter_item returns: the item or any child matches
RECURSIVE FilterItem(_, _, _)
FilterItem(t, i, text) ==
    \/ ItemMatches(t.items[i], text)
    \/ \E j \in Children(t, i) : FilterItem(t, j, text)

ChildMatches(t, i, text) == \E j \in Children(t, i) : FilterItem(t, j, text)

\* a filter that looks at the item alone
ShouldShowSelf(text, item_matches, child_matches) ==
    text = <<>> \/ item_matches

\* should_show = (not text) or item_matches or child_matches
ShouldShow(text, item_matches, child_matches) ==
    text = <<>> \/ item_matches \/ child_matches

_apply_filter(typed) ==
    LET text == Lower(typed)
    IN  /\ hidden' = [i \in 1..Len(tree.items) |->
                         ~ShouldShow(text, ItemMatches(tree.items[i], text),
                                     ChildMatches(tree, i, text))]
        /\ expanded' = [i \in 1..Len(tree.items) |->
                           IF ChildMatches(tree, i, text) /\ text # <<>>
                           THEN TRUE ELSE expanded[i]]
        /\ call' = [name |-> "_apply_filter", args |-> <<typed>>, raised |-> ""]
        /\ emitted' = <<>>
        /\ UNCHANGED <<variant_prims, tree>>
        /\ UNCHANGED <<thumbVars, stateVars, panelVars>>

----------------------------------------------------------------------------
(* Houdini and USD as the panel sees them *)

NoPath      == ""     \* None, or "", where a node path is expected
BaseNode    == "/obj/lopnet1/base"
OtherNode   == "/obj/lopnet1/other"
MissingNode == "/obj/lopnet1/typo"     \* a path typed by hand, no such node

\* createNode("setvariant", "set_variant"): Houdini numbers a taken name
SetVariantNode(k) ==
    CASE k = 0 -> "/obj/lopnet1/set_variant"
      [] k = 1 -> "/obj/lopnet1/set_variant1"
      [] k = 2 -> "/obj/lopnet1/set_variant2"
      [] k = 3 -> "/obj/lopnet1/set_variant3"

\* the node paths in Python's string order
NodeOrder ==
    <<BaseNode, OtherNode, SetVariantNode(0), SetVariantNode(1),
      SetVariantNode(2), SetVariantNode(3)>>

\* sorted(nodes)
SortedNodes(nodes) == SelectSeq(NodeOrder, LAMBDA n : n \in nodes)

\* stage.Traverse(), restricted to the prims with variant sets
StagePrims(s) ==
    CASE s = 1 -> <<PrimA, PrimAB>>
      [] s = 2 -> <<PrimAB>>
      [] OTHER -> <<>>

\* the paths at which a stage has a prim
StagePaths(s) ==
    UNION {Prefixes(StagePrims(s)[k].path) : k \in 1..Len(StagePrims(s))}

\* prim.IsValid() of stage.GetPrimAtPath(path)
IsValid(prim) == prim # NoPrim /\ prim[2] \in StagePaths(prim[1])

\* list(prim.GetVariantSets().GetNames())
GetNames(prim) ==
    LET prims == StagePrims(prim[1])
        found == {k \in 1..Len(prims) : prims[k].path = prim[2]}
    IN  IF found = {} THEN <<>>
        ELSE prims[CHOOSE k \in found : TRUE].variant_sets

\* variant_set.GetVariantNames()
GetVariantNames(set_name) ==
    IF set_name = <<"a">> THEN <<<<"A">>, <<"B">>>> ELSE <<<<"b">>>>

\* the scene the panel is opened in: two LOP nodes, none of them found by
\* InspectorTab._init_from_lop
InitialNodes ==
    (BaseNode :> [stage |-> 1, parms |-> <<>>])
        @@ (OtherNode :> [stage |-> 2, parms |-> <<>>])

\* the first name createNode can give, NoPath when the names are used up
FreeNames == {k \in 0..(MaxCreated - 1) : SetVariantNode(k) \notin DOMAIN houdini.nodes}

NewNodePath ==
    IF FreeNames = {} THEN NoPath
    ELSE SetVariantNode(CHOOSE k \in FreeNames : \A j \in FreeNames : k <= j)

\* create_set_variant_node, configure_set_variant_node and jump_to_node: the
\* node is made with the stage it cooks to, gets the display flag, its
\* parameters, and becomes Houdini's current node
CreateSetVariantNode(h, new_path, new_stage, button) ==
    [nodes   |-> (new_path :> [stage |-> new_stage,
                               parms |-> <<button.prim_path, button.variant_set,
                                           button.variant_choice>>]) @@ h.nodes,
     display |-> new_path,
     current |-> new_path]

----------------------------------------------------------------------------
(* the panel's objects as one value, threaded through a handler's calls *)

World ==
    [houdini |-> houdini, selector |-> selector, inspector |-> inspector,
     comparison |-> comparison, variant_prims |-> variant_prims,
     tree |-> tree, hidden |-> hidden, expanded |-> expanded,
     emitted |-> <<>>]

Emit(w, sig, value) ==
    [w EXCEPT !.emitted = Append(@, [sig |-> sig, value |-> value])]

Becomes(w) ==
    /\ houdini' = w.houdini
    /\ selector' = w.selector
    /\ inspector' = w.inspector
    /\ comparison' = w.comparison
    /\ variant_prims' = w.variant_prims
    /\ tree' = w.tree
    /\ hidden' = w.hidden
    /\ expanded' = w.expanded
    /\ emitted' = w.emitted

----------------------------------------------------------------------------
(* ComparisonTab *)

NoVariantSets == <<"(No variant sets)">>
NoSet == <<>>         \* None where a variant set name is expected

ComparisonTab_init ==
    [current_prim |-> NoPrim, current_variant_set |-> NoSet,
     combo |-> <<NoVariantSets>>, combo_enabled |-> FALSE,
     panels |-> <<>>, get_source_lop_node_callback |-> FALSE,
     thumbnail_manager |-> FALSE, create_thumbnails_enabled |-> FALSE]

_clear_panels(c) ==
    [c EXCEPT !.panels = <<>>, !.create_thumbnails_enabled = FALSE]

\* one ComparisonPanelWidget per variant, its Switch button carrying the
\* variant context
_rebuild_panels(c, variant_names) ==
    LET cleared == _clear_panels(c)
        path == IF c.current_prim # NoPrim THEN c.current_prim[2] ELSE <<>>
    IN  [cleared EXCEPT
            !.panels = [i \in 1..Len(variant_names) |->
                IF path # <<>> /\ c.current_variant_set # NoSet
                THEN [variant_name |-> variant_names[i],
                      prim_path |-> path,
                      variant_set |-> c.current_variant_set,
                      variant_choice |-> variant_names[i]]
                ELSE [variant_name |-> variant_names[i],
                      prim_path |-> <<>>, variant_set |-> NoSet,
                      variant_choice |-> <<>>]],
            !.create_thumbnails_enabled =
                Len(variant_names) > 0 /\ c.thumbnail_manager]

_on_variant_set_changed(c, variant_set_name) ==
    IF variant_set_name = NoVariantSets \/ ~IsValid(c.current_prim)
    THEN _clear_panels(c)
    ELSE _rebuild_panels([c EXCEPT !.current_variant_set = variant_set_name],
                         GetVariantNames(variant_set_name))

_populate_variant_sets(c) ==
    LET set_names == GetNames(c.current_prim)
    IN  IF IsValid(c.current_prim) /\ set_names # <<>>
        THEN _on_variant_set_changed(
                 [c EXCEPT !.combo = set_names, !.combo_enabled = TRUE],
                 set_names[1])
        ELSE _clear_panels([c EXCEPT !.combo = <<NoVariantSets>>,
                                     !.combo_enabled = FALSE])

_clear_variant_sets(c) ==
    _clear_panels([c EXCEPT !.combo = <<NoVariantSets>>,
                            !.combo_enabled = FALSE])

\* set_prim_path(prim_path, stage=None)
ComparisonTab_set_prim_path(c, path, usd_stage) ==
    IF path # <<>> /\ usd_stage # NoStage
    THEN _populate_variant_sets(
             [c EXCEPT !.current_prim = GetPrimAtPath(usd_stage, path)])
    ELSE _clear_variant_sets([c EXCEPT !.current_prim = NoPrim])

\* set_stage(stage, lop_node=None) with its _refresh_from_stage(stage); the
\* panel passes no lop_node, so no thumbnail manager is made
ComparisonTab_set_stage(c, usd_stage) ==
    IF usd_stage = NoStage THEN [c EXCEPT !.current_prim = NoPrim]
    ELSE IF c.current_prim # NoPrim
    THEN [c EXCEPT !.current_prim = GetPrimAtPath(usd_stage, c.current_prim[2])]
    ELSE c

\* VariantManagerPanel._on_prim_path_changed: ComparisonTab has no _stage
\* attribute, so only set_prim_path(prim_path) is called, without a stage
_on_prim_path_changed(w, path) ==
    [w EXCEPT !.comparison = ComparisonTab_set_prim_path(@, path, NoStage)]

----------------------------------------------------------------------------
(* InspectorTab as the panel drives it *)

InspectorTab_init ==
    [stage |-> NoStage, lop_node |-> NoPath, selected |-> {},
     details |-> NoData]

\* the Switch buttons of the details pane: one per variant of every set
SwitchButtons(details) ==
    IF details = NoData THEN {}
    ELSE LET prim_data == details[1]
             sets == prim_data.variant_sets
         IN  UNION {{[prim_path |-> prim_data.path,
                      variant_set |-> sets[s],
                      variant_choice |-> GetVariantNames(sets[s])[c]] :
                        c \in 1..Len(GetVariantNames(sets[s]))} :
                    s \in 1..Len(sets)}

\* the body of _on_selection_changed for the selection in w: the details of
\* the one selected variant prim and primPathChanged(its path), else no
\* details and primPathChanged("")
selection_changed(w) ==
    LET items == w.tree.items
        item_of(p) == items[w.tree.path_to_item[p]]
        variant_items == {p \in w.inspector.selected : item_of(p).data # NoData}
    IN  IF Cardinality(variant_items) = 1
        THEN LET prim_data == item_of(CHOOSE p \in variant_items : TRUE).data[1]
             IN  _on_prim_path_changed(
                     Emit([w EXCEPT !.inspector.details = <<prim_data>>],
                          "primPathChanged", prim_data.path),
                     prim_data.path)
        ELSE _on_prim_path_changed(
                 Emit([w EXCEPT !.inspector.details = NoData],
                      "primPathChanged", <<>>),
                 <<>>)

\* set_stage: _refresh_from_stage rebuilds the tree (the new items are
\* neither selected nor hidden), then the selection is restored by path
InspectorTab_set_stage(w, usd_stage) ==
    LET selected_paths == w.inspector.selected
        prims == StagePrims(usd_stage)
        t == RebuildList(prims)
        rebuilt ==
            [w EXCEPT !.inspector.stage = usd_stage,
                      !.inspector.selected = {},
                      !.inspector.details =
                          IF usd_stage = NoStage THEN NoData ELSE @,
                      !.variant_prims = prims,
                      !.tree = t,
                      !.hidden = [i \in 1..Len(t.items) |-> FALSE],
                      !.expanded = [i \in 1..Len(t.items) |->
                                       Children(t, i) # {}]]
    IN  IF selected_paths = {} THEN rebuilt
        ELSE selection_changed(
                 [rebuilt EXCEPT !.inspector.selected =
                     selected_paths \cap DOMAIN t.path_to_item])

----------------------------------------------------------------------------
(* LOPNodeSelector and the panel's slots *)

LOPNodeSelector_init ==
    [current_node_path |-> NoPath, current_stage |-> NoStage,
     available_nodes |-> <<>>]

\* refresh_node_list: the LOP nodes that give a stage, sorted; the slot
\* _on_nodes_updated only refills the combo box
refresh_node_list(w) ==
    LET nodes == {n \in DOMAIN w.houdini.nodes :
                     w.houdini.nodes[n].stage # NoStage}
    IN  Emit([w EXCEPT !.selector.available_nodes = SortedNodes(nodes)],
             "nodesUpdated", SortedNodes(nodes))

\* _get_stage_from_node: None with errorOccurred for a missing node or a
\* node without a stage
_get_stage_from_node(w, node_path) ==
    IF node_path \in DOMAIN w.houdini.nodes
    THEN w.houdini.nodes[node_path].stage
    ELSE NoStage

\* _on_stage_changed: the Inspector tab, then the Comparison tab
_on_stage_changed(w, usd_stage) ==
    LET w1 == InspectorTab_set_stage(w, usd_stage)
    IN  [w1 EXCEPT !.comparison = ComparisonTab_set_stage(@, usd_stage)]

\* select_node; the slot _on_node_changed only shows the path
select_node(w, node_path) ==
    IF node_path = NoPath
    THEN LET w1 == [w EXCEPT !.selector.current_node_path = NoPath,
                             !.selector.current_stage = NoStage]
             w2 == Emit(w1, "nodeChanged", "")
         IN  _on_stage_changed(Emit(w2, "stageChanged", NoStage), NoStage)
    ELSE LET w1 == Emit([w EXCEPT !.selector.current_node_path = node_path],
                        "nodeChanged", node_path)
             usd_stage == _get_stage_from_node(w1, node_path)
             w2 == IF usd_stage = NoStage
                   THEN Emit(w1, "errorOccurred", node_path) ELSE w1
             w3 == [w2 EXCEPT !.selector.current_stage = usd_stage]
         IN  _on_stage_changed(Emit(w3, "stageChanged", usd_stage), usd_stage)

\* refresh_current_stage
refresh_current_stage(w) ==
    IF w.selector.current_node_path # NoPath
    THEN select_node(w, w.selector.current_node_path)
    ELSE w

\* a slot that refreshes the list and leaves the selection alone
_on_node_created_refresh_only(w, node_path) ==
    IF node_path = NoPath THEN w ELSE refresh_node_list(w)

\* _on_node_created: refresh the node list, then select the new node
_on_node_created(w, node_path) ==
    IF node_path = NoPath THEN w
    ELSE select_node(refresh_node_list(w), node_path)

\* VariantManagerPanel.__init__ ends with the initial population of the list
Panel_init ==
    refresh_node_list(
        [houdini |-> [nodes |-> InitialNodes, display |-> NoPath,
                      current |-> NoPath],
         selector |-> LOPNodeSelector_init,
         inspector |-> InspectorTab_init,
         comparison |-> ComparisonTab_init,
         variant_prims |-> <<>>, tree |-> EmptyTree, hidden |-> <<>>,
         expanded |-> <<>>, emitted |-> <<>>])

\* the text of the LOP path combo box changes
_on_lop_combo_changed(text) ==
    /\ Becomes(IF text # "" /\ text # selector.current_node_path
               THEN select_node(World, text) ELSE World)
    /\ call' = [name |-> "_on_lop_combo_changed", args |-> <<text>>, raised |-> ""]
    /\ UNCHANGED <<thumbVars, stateVars>>

\* the Refresh button
_on_refresh_clicked ==
    /\ Becomes(refresh_current_stage(refresh_node_list(World)))
    /\ call' = [name |-> "_on_refresh_clicked", args |-> <<>>, raised |-> ""]
    /\ UNCHANGED <<thumbVars, stateVars>>

\* the user changes the selection in the variant tree
_on_selection_changed(selection) ==
    /\ selection \subseteq DOMAIN tree.path_to_item
    /\ selection # inspector.selected
    /\ Becomes(selection_changed(
                   [World EXCEPT !.inspector.selected = selection]))
    /\ call' = [name |-> "_on_selection_changed", args |-> <<selection>>,
                raised |-> ""]
    /\ UNCHANGED <<thumbVars, stateVars>>

\* a Switch button of the Inspector tab is clicked; created tells whether
\* createNode succeeds, new_stage is the stage the new node cooks to
_on_switch_variant_clicked(button, created, new_stage) ==
    LET source_node == IF selector.current_node_path \in DOMAIN houdini.nodes
                       THEN selector.current_node_path
                       ELSE inspector.lop_node
    IN  /\ button \in SwitchButtons(inspector.details)
        /\ NewNodePath # NoPath
        /\ IF source_node = NoPath
           THEN /\ Becomes(World)
                /\ call' = [name |-> "_on_switch_variant_clicked",
                            args |-> <<button>>, raised |-> ""]
           ELSE IF ~created
           THEN /\ Becomes(World)
                /\ call' = [name |-> "_on_switch_variant_clicked",
                            args |-> <<button>>, raised |-> "RuntimeError"]
           ELSE /\ new_stage \in {houdini.nodes[source_node].stage, NoStage}
                /\ Becomes(_on_node_created(
                       Emit([World EXCEPT !.houdini =
                                CreateSetVariantNode(@, NewNodePath,
                                                     new_stage, button)],
                            "nodeCreated", NewNodePath),
                       NewNodePath))
                /\ call' = [name |-> "_on_switch_variant_clicked",
                            args |-> <<button>>, raised |-> ""]
        /\ UNCHANGED <<thumbVars, stateVars>>

----------------------------------------------------------------------------
(* Specifications *)

Init ==
    /\ queue = <<>>
    /\ is_busy = FALSE
    /\ timerActive = FALSE
    /\ gen_service = "live"
    /\ mgr_service = "live"
    /\ cache = EmptyCache
    /\ instance = NoObject
    /\ initialized = FALSE
    /\ lop_node = NoNode
    /\ stage = NoStage
    /\ prim_path = ""
    /\ variant_set = ""
    /\ call = [name |-> "__init__", args |-> <<>>, raised |-> ""]
    /\ emitted = <<>>
    /\ nextId = 0
    /\ accepted = <<>>
    /\ answered = <<>>
    /\ cancelled = {}
    /\ generated = NeverGenerated
    /\ assigned = Defaults
    /\ repeated = FALSE
    /\ initCount = 0
    /\ returned = {}
    /\ nextObject = 0
    /\ variant_prims = <<>>
    /\ tree = EmptyTree
    /\ hidden = <<>>
    /\ expanded = <<>>
    /\ houdini = Panel_init.houdini
    /\ selector = Panel_init.selector
    /\ inspector = Panel_init.inspector
    /\ comparison = Panel_init.comparison

\* the thumbnail system: the generator's and the manager's entry points and
\* the timer's timeout
NextThumb ==
    \/ \E i \in Indices, t \in Triples : queue_item(i, t[1], t[2], t[3])
    \/ \E i \in Indices, t \in Triples, f \in BOOLEAN :
           request_thumbnail(i, t[1], t[2], t[3], f)
    \/ _generate_next
    \/ cancel_all
    \/ cancel_pending
    \/ \E n \in SourceNodes : update_source_node(n)
    \/ cleanup

SpecThumb == Init /\ [][NextThumb]_vars

\* the state singleton: construction and the property setters
NextState ==
    \/ VariantManagerState
    \/ \E n \in LopNodes : set_lop_node(n)
    \/ \E st \in Stages : set_stage(st)
    \/ \E p \in StatePaths : set_prim_path(p)
    \/ \E vs \in StateSets : set_variant_set(vs)
    \/ clear

SpecState == Init /\ [][NextState]_vars

\* the Inspector tab's variant tree: a stage is scanned, the filter is typed
NextTree ==
    \/ \E prims \in Traversals : _refresh_from_stage(prims)
    \/ \E typed \in FilterTexts : _apply_filter(typed)

SpecTree == Init /\ [][NextTree]_vars

\* the panel: the user picks a LOP node, refreshes, selects prims, or clicks a
\* Switch button of the Inspector tab
NextPanel ==
    \/ \E text \in {"", BaseNode, OtherNode, MissingNode}
                   \cup {SetVariantNode(k) : k \in 0..(MaxCreated - 1)} :
           _on_lop_combo_changed(text)
    \/ _on_refresh_clicked
    \/ \E selection \in SUBSET DOMAIN tree.path_to_item :
           _on_selection_changed(selection)
    \/ \E button \in SwitchButtons(inspector.details), created \in BOOLEAN,
          new_stage \in Stages :
           _on_switch_variant_clicked(button, created, new_stage)

SpecPanel == Init /\ [][NextPanel]_vars

----------------------------------------------------------------------------
(* Properties of the thumbnail system *)

Range(f) == {f[i] : i \in DOMAIN f}

NotCancelled(ids) == SelectSeq(ids, LAMBDA id : id \notin cancelled)

\* C1: requests are answered in the order in which they were accepted: the
\* answered requests followed by the queued ones are exactly the accepted
\* requests that no cancel_all removed, in acceptance order.
C1_FifoOrder == answered \o Ids(queue) = NotCancelled(accepted)

\* three requests answered with no cancel in between
C1_Witness == Len(answered) >= 3 /\ cancelled = {}

\* C2 (as claimed): a call of request_thumbnail returns normally and leaves a
\* request with the triple's cache key (and, if none was queued before, the
\* given index) in the queue, with the timer pending.
C2_RequestQueues ==
    [][call'.name = "request_thumbnail" =>
         LET key == CacheKey(call'.args[2], call'.args[3], call'.args[4])
         IN  /\ call'.raised = ""
             /\ timerActive'
             /\ IF IsQueued(queue, key)
                THEN queue' = queue
                ELSE /\ Len(queue') = Len(queue) + 1
                     /\ SubSeq(queue', 1, Len(queue)) = queue
                     /\ queue'[Len(queue')].cache_key = key
                     /\ queue'[Len(queue')].index = call'.args[1]]_vars

\* C3 (as claimed): when a request with the same cache key is already queued,
\* request_thumbnail appends another one if force_regenerate is True and
\* leaves the queue alone if it is False.
C3_ForceBypassesDuplicateCheck ==
    [][(call'.name = "request_thumbnail"
        /\ IsQueued(queue, CacheKey(call'.args[2], call'.args[3], call'.args[4]))) =>
         IF call'.args[5]
         THEN /\ Len(queue') = Len(queue) + 1
              /\ SubSeq(queue', 1, Len(queue)) = queue
              /\ queue'[Len(queue')].cache_key =
                   CacheKey(call'.args[2], call'.args[3], call'.args[4])
         ELSE queue' = queue /\ call'.raised = ""]_vars

\* C4: no step answers more than one request; a step that answers one is a
\* timer firing that removes exactly the head of the queue, ends with no
\* generation in progress, and leaves the timer pending exactly when requests
\* remain, so the next request waits for a firing scheduled after this one.
C4_OneAtATime ==
    [][/\ Len(answered') <= Len(answered) + 1
       /\ ~is_busy_method'
       /\ (call'.name = "_generate_next" /\ queue # <<>>) =>
              Len(answered') = Len(answered) + 1
       /\ Len(answered') = Len(answered) + 1 =>
              /\ call'.name = "_generate_next"
              /\ timerActive
              /\ queue # <<>>
              /\ queue' = Tail(queue)
              /\ answered' = Append(answered, Head(queue).id)
              /\ timerActive' = (queue' # <<>>)]_vars

\* two requests answered, more waiting for the next firing
C4_Witness == Len(answered) >= 2 /\ queue # <<>> /\ timerActive

\* C5 (as claimed): a thumbnail_ready signal is emitted with the pixmap
\* already cached, and get_cached_thumbnail of a triple is the pixmap of the
\* triple's latest successful generation since the last cleanup, None if
\* there was none.
C5_CacheMatchesGenerated ==
    /\ \A i \in 1..Len(emitted) :
          emitted[i].sig = "thumbnail_ready" => emitted[i].cached = emitted[i].pixmap
    /\ \A t \in Triples : get_cached_thumbnail(t[1], t[2], t[3]) = generated[t]

\* C6: a call of update_source_node, whatever its argument, leaves the cache
\* as it was, empties the queue and stops the timer, and the requests that
\* were pending are among the cancelled ones.
C6_UpdatePreservesCache ==
    [][call'.name = "update_source_node" =>
         /\ cache' = cache
         /\ queue' = <<>>
         /\ ~timerActive'
         /\ Range(Ids(queue)) \subseteq cancelled']_vars

\* update_source_node with a node whose capture service fails to initialise,
\* called with a filled cache, after it cancelled pending requests
C6_Witness ==
    /\ call.name = "update_source_node"
    /\ call.args = <<"bad">>
    /\ cache # EmptyCache
    /\ cancelled # {}

\* C7: right after cancel_all or cancel_pending the queue is empty, the timer
\* is stopped and is_busy() is False; no cancelled request is ever answered
\* or still queued.
C7_CancelAll ==
    /\ call.name \in {"cancel_all", "cancel_pending"} =>
          queue = <<>> /\ ~timerActive /\ ~is_busy_method
    /\ cancelled \cap Range(answered) = {}
    /\ cancelled \cap Range(Ids(queue)) = {}

\* a request queued after a cancel has been answered, the cancelled one not
C7_Witness ==
    /\ cancelled # {}
    /\ \E a \in Range(answered) : \E c \in cancelled : a > c

----------------------------------------------------------------------------
(* Properties of the state singleton *)

\* C8: every construction returns the one object, and a construction after
\* the first leaves the instance, the stored fields and the count of
\* initialisations as they were.
C8_Singleton ==
    [][call'.name = "VariantManagerState" =>
         /\ returned' = {instance'}
         /\ initCount' = 1
         /\ instance # NoObject =>
               /\ instance' = instance
               /\ UNCHANGED <<lop_node, stage, prim_path, variant_set>>]_vars

\* the singleton constructed again after a node was stored
C8_Witness ==
    /\ call.name = "VariantManagerState"
    /\ lop_node # NoNode
    /\ initCount = 1

\* C9 (as claimed): reading stage, prim_path or variant_set gives the value
\* last assigned to it.
C9_ReadsLastAssigned ==
    /\ stage_getter = assigned.stage
    /\ prim_path_getter = assigned.prim_path
    /\ variant_set_getter = assigned.variant_set

\* C10: assigning lop_node a different value stores it and emits exactly one
\* lop_node_changed with it; assigning the stored value emits nothing and
\* changes nothing; the getter gives the value last assigned.
C10_LopNodeSetter ==
    [][call'.name = "lop_node" =>
         LET v == call'.args[1]
         IN  /\ IF v # lop_node
                THEN /\ lop_node' = v
                     /\ emitted' = <<[sig |-> "lop_node_changed", value |-> v]>>
                ELSE /\ lop_node' = lop_node
                     /\ emitted' = <<>>
             /\ UNCHANGED <<stage, prim_path, variant_set, instance>>
             /\ lop_node_getter' = assigned'.lop_node]_vars

\* an assignment of the node that is already stored, which emitted nothing
C10_Witness ==
    /\ call.name = "lop_node"
    /\ call.args[1] = lop_node
    /\ lop_node # NoNode
    /\ emitted = <<>>

\* C11: an assignment of stage, prim_path or variant_set emits exactly one
\* signal, the property's own, with the assigned value, whether or not the
\* value is the one assigned before.
C11_SettersAlwaysEmit ==
    /\ call.name = "stage" =>
          emitted = <<[sig |-> "stage_changed", value |-> call.args[1]]>>
    /\ call.name = "prim_path" =>
          emitted = <<[sig |-> "prim_path_changed", value |-> call.args[1]]>>
    /\ call.name = "variant_set" =>
          emitted = <<[sig |-> "variant_set_changed", value |-> call.args[1]]>>

\* the stage assigned the value it was assigned before (and reads as)
C11_Witness ==
    /\ call.name = "stage"
    /\ repeated
    /\ call.args[1] = stage_getter
    /\ Len(emitted) = 1

\* C12 (as claimed): get_prim() is the prim at the last assigned path of the
\* last assigned stage, and None when no stage or no path was assigned.
C12_GetPrim ==
    get_prim = IF assigned.stage # NoStage /\ assigned.prim_path # ""
               THEN GetPrimAtPath(assigned.stage, assigned.prim_path)
               ELSE NoPrim

\* C13: after clear() the four properties read their defaults, and clear()
\* emitted stage_changed(None), prim_path_changed("") and
\* variant_set_changed("") once each, preceded by lop_node_changed(None)
\* exactly when a node was stored.
C13_ClearResets ==
    [][call'.name = "clear" =>
         /\ lop_node_getter' = NoNode
         /\ stage_getter' = NoStage
         /\ prim_path_getter' = ""
         /\ variant_set_getter' = ""
         /\ emitted' =
              (IF lop_node # NoNode
               THEN <<[sig |-> "lop_node_changed", value |-> NoNode]>>
               ELSE <<>>)
              \o <<[sig |-> "stage_changed", value |-> NoStage],
                   [sig |-> "prim_path_changed", value |-> ""],
                   [sig |-> "variant_set_changed", value |-> ""]>>]_vars

\* a clear() that had a node to reset, after other properties were assigned
C13_Witness ==
    /\ call.name = "clear"
    /\ Len(emitted) = 4
    /\ lop_node = NoNode

----------------------------------------------------------------------------
(* the Inspector tab's variant tree *)

\* C16: after _rebuild_list, _path_to_item holds exactly one item for every
\* non-empty prefix of every variant prim's path, each item hangs under the
\* item of its parent path (top level for one component), and every variant
\* prim's item carries the prim's data and is no greyed intermediate item,
\* also when a variant prim is an ancestor of another
C16_TreeMirrorsPaths ==
    LET items == tree.items
        path_to_item == tree.path_to_item
        prefixes == UNION {Prefixes(variant_prims[k].path) :
                              k \in 1..Len(variant_prims)}
    IN  /\ DOMAIN path_to_item = prefixes
        /\ \A p, q \in prefixes : path_to_item[p] = path_to_item[q] => p = q
        /\ {path_to_item[p] : p \in prefixes} = 1..Len(items)
        /\ \A p \in prefixes :
              items[path_to_item[p]].parent =
                  IF ParentPath(p) = <<>> THEN 0
                  ELSE path_to_item[ParentPath(p)]
        /\ \A k \in 1..Len(variant_prims) :
              LET item == items[path_to_item[variant_prims[k].path]]
              IN  /\ item.data = <<variant_prims[k]>>
                  /\ item.variant
                  /\ ~item.grey

\* a rebuilt tree with a variant prim under a variant prim and a variant prim
\* under a prim without variants
C16_Witness ==
    /\ call.name = "_refresh_from_stage"
    /\ \E i, j, k \in 1..Len(variant_prims) :
          /\ variant_prims[i] = PrimA
          /\ variant_prims[j] = PrimAb
          /\ variant_prims[k] = PrimbA
    /\ \E n \in 1..Len(tree.items) : tree.items[n].grey

\* i is above j in the tree
RECURSIVE IsAncestor(_, _, _)
IsAncestor(t, i, j) ==
    /\ t.items[j].parent # 0
    /\ (t.items[j].parent = i \/ IsAncestor(t, i, t.items[j].parent))

\* C17: after _apply_filter(text) an item is visible exactly when the text is
\* empty, or the item matches the text case-insensitively (a variant prim on
\* its path or its variant set names, an intermediate item on its displayed
\* name), or an item below it matches
C17_FilterVisibility ==
    call.name = "_apply_filter" =>
        LET text == Lower(call.args[1])
            Matches(i) == ItemMatches(tree.items[i], text)
        IN  \A i \in 1..Len(tree.items) :
                ~hidden[i] <=>
                    \/ call.args[1] = <<>>
                    \/ Matches(i)
                    \/ \E j \in 1..Len(tree.items) :
                          IsAncestor(tree, i, j) /\ Matches(j)

\* a filter that keeps an item only for what is below it, hides another, and
\* was typed in upper case
C17_Witness ==
    /\ call.name = "_apply_filter"
    /\ call.args[1] # Lower(call.args[1])
    /\ \E i, j \in 1..Len(tree.items) :
          /\ ~hidden[i]
          /\ ~ItemMatches(tree.items[i], Lower(call.args[1]))
          /\ hidden[j]

----------------------------------------------------------------------------
(* the panel *)

\* the positions of a signal in the list of emitted signals
Positions(signals, sig) == {i \in 1..Len(signals) : signals[i].sig = sig}

\* C14: after a Switch button has created a Set Variant node, the panel's
\* node list is refreshed and then the selector's current_node_path is the
\* new node's path, nodeChanged(new path) and stageChanged being emitted in
\* that order
C14_SwitchSelectsCreatedNode ==
    [][(call'.name = "_on_switch_variant_clicked"
            /\ DOMAIN houdini'.nodes # DOMAIN houdini.nodes) =>
        LET new_path == CHOOSE n \in DOMAIN houdini'.nodes :
                            n \notin DOMAIN houdini.nodes
            updated == Positions(emitted', "nodesUpdated")
            changed == Positions(emitted', "nodeChanged")
            staged  == Positions(emitted', "stageChanged")
        IN  /\ selector'.current_node_path = new_path
            /\ selector'.available_nodes =
                   SortedNodes({n \in DOMAIN houdini'.nodes :
                                   houdini'.nodes[n].stage # NoStage})
            /\ Cardinality(updated) = 1
            /\ Cardinality(changed) = 1
            /\ Cardinality(staged) = 1
            /\ \A u \in updated, c \in changed, g \in staged :
                   /\ u < c
                   /\ c < g
                   /\ emitted'[c].value = new_path
                   /\ emitted'[g].value = houdini'.nodes[new_path].stage
                   /\ emitted'[g].value = selector'.current_stage]_vars

\* a Switch click on a node made by an earlier Switch click has made a second
\* node, which has a stage and is selected
C14_Witness ==
    /\ call.name = "_on_switch_variant_clicked"
    /\ Positions(emitted, "nodeCreated") # {}
    /\ selector.current_node_path = SetVariantNode(1)
    /\ selector.current_stage # NoStage
    /\ houdini.nodes[SetVariantNode(1)].parms # <<>>

\* C15: a prim path selected in the Inspector tab reaches the Comparison tab:
\* for the non-empty path of a valid prim with variant sets on the current
\* stage the Comparison tab's current prim is that prim, its selector lists
\* the prim's variant sets and there is one panel per variant of the first
\* set; for the empty path the selector and the panels are cleared
C15_PrimPathForwarded ==
    [][\A i \in Positions(emitted', "primPathChanged") :
        (call'.name = "_on_selection_changed" /\ i = Len(emitted')) =>
            LET path == emitted'[i].value
                prim == GetPrimAtPath(inspector'.stage, path)
            IN  IF path # <<>> /\ IsValid(prim) /\ GetNames(prim) # <<>>
                THEN /\ comparison'.current_prim = prim
                     /\ comparison'.combo = GetNames(prim)
                     /\ Len(comparison'.panels) =
                            Len(GetVariantNames(GetNames(prim)[1]))
                ELSE path = <<>> =>
                     /\ comparison'.combo = <<NoVariantSets>>
                     /\ comparison'.panels = <<>>]_vars

====
